---------------------------- MODULE Spec2Model ----------------------------
(***************************************************************************)
(* A model of the dht-hal driver (src/dht-hal/src/lib.rs, kind.rs):        *)
(* the pulse sampler read_pulse_us, the handshake start_signal_blocking,   *)
(* the read loop read_blocking and the frame decoder Reading::from_pulses. *)
(* The pin and the delay provider are collaborators: their behaviour is    *)
(* enumerated (a scripted sensor waveform with faults, or a free pin).     *)
(***************************************************************************)
EXTENDS Integers, Sequences, FiniteSets, TLC

VARIABLES
    \* ---- the driver and one read_blocking call (lib.rs 113-168)
    kind,       \* the type parameter K of Dht<P, T, K>: "Dht11" or "Dht22"
    pc,         \* position of the running read_blocking call, "idle" outside
    len,        \* loop variable of read_pulse_us (lib.rs 114)
    idx,        \* index of the pulse the data loop is filling (lib.rs 163)
    pulses,     \* the local array `pulses` of read_blocking (lib.rs 158)
    result,     \* what the last read_blocking call returned
    \* ---- the collaborators
    scen,       \* the sensor's behaviour: frame sent, timing, faults
    wpos,       \* index of the waveform run the line is in
    wrem,       \* microseconds left in that run
    pinops,     \* pin operations performed so far in this read
    \* ---- observation of one read
    ops,        \* the calls made, in order: pin writes, delays, samples
    writes,     \* pin writes attempted in this read
    reads,      \* pin level reads attempted in this read
    ticks,      \* delay_us(1) calls made by the sampler in this read
    decodes,    \* calls of Reading::from_pulses in this read
    nread,      \* number of read_blocking calls made on this driver
    first,      \* the outcome of the first read (on the fresh driver)
    rets,       \* the values the read_pulse_us calls of this read returned
    \* ---- Reading::from_pulses applied to a frame (lib.rs 172-207)
    dIn,        \* the five bytes the frames encode
    dPulses,    \* a frame: 40 pulses
    dPulses2,   \* a second frame
    dBytes,     \* the local array `bytes` after the decode of dPulses
    dBytes2,    \* the same for dPulses2
    dRes,       \* from_pulses(dPulses)
    dRes2,      \* from_pulses(dPulses2)
    \* ---- read_pulse_us against a free pin (lib.rs 113-121)
    pHigh,      \* the argument `high`
    pLen,       \* the loop variable `len`
    pPolls,     \* calls of pin.is_high() made
    pDelays,    \* calls of timer.delay_us(1) made
    pLast,      \* the level the last poll read
    pPrior,     \* the levels the polls before the last one read
    pRet,       \* the value returned
    \* ---- the conversions of DhtKind applied to a byte pair (kind.rs 20-55)
    cI,         \* the argument `integral`
    cD,         \* the argument `decimal`
    cOut,       \* the values computed, in tenths of a unit
    \* ---- the configuration (src/config.rs)
    doc,        \* the TOML document handed to toml::from_str
    cfg         \* what toml::from_str::<App> returned

driverVars == <<kind, pc, len, idx, pulses, result, scen, wpos, wrem, pinops,
                ops, writes, reads, ticks, decodes, nread, first, rets>>
decodeVars == <<dIn, dPulses, dPulses2, dBytes, dBytes2, dRes, dRes2>>
pulseVars  == <<pHigh, pLen, pPolls, pDelays, pLast, pPrior, pRet>>
convVars == <<cI, cD, cOut>>
configVars == <<doc, cfg>>
vars == <<driverVars, decodeVars, pulseVars, convVars, configVars>>

----------------------------------------------------------------------------
(* Program constants.                                                      *)

\* core::u8::MAX, the last value of the range `0..=core::u8::MAX`
U8_MAX_Long == 255 + 1
U8_MAX == 255

\* the length of the array `[Pulse; 40]`
NumPulses == 40

\* `pulses.chunks(8)`: pulses per byte
ChunkSize == 8

\* the length of `bytes`, `[0u8; 5]`
NumBytes == 5

\* `if i < 4`: the chunks that enter the checksum
NumDataBytes == 4

Pow2(n) == IF n = 0 THEN 1 ELSE IF n = 1 THEN 2 ELSE IF n = 2 THEN 4
           ELSE IF n = 3 THEN 8 ELSE IF n = 4 THEN 16 ELSE IF n = 5 THEN 32
           ELSE IF n = 6 THEN 64 ELSE 128

\* u8 and u16 arithmetic
U8(n) == n % 256
U16(n) == n % 65536

----------------------------------------------------------------------------
(* Results and errors (lib.rs 76-84, 225-272).                             *)

Io(e) == [kind |-> "Io", io |-> e]
Checksum(actual, expected) ==
    [kind |-> "Checksum", expected |-> expected, actual |-> actual]
Timeout == [kind |-> "Timeout"]

\* impl From<E> for ErrorKind<E>: what `?` does to a pin error
FromIo_Timeout(e) == Timeout
FromIo_Lossy(e) == Io("EBUS")
FromIo(e) == Io(e)

Ok(v) == [tag |-> "Ok", val |-> v]
Err(e) == [tag |-> "Err", err |-> e]
None == [tag |-> "None"]

is_timeout(err) == err.kind = "Timeout"
is_io(err) == err.kind = "Io"
is_checksum_NotTimeout(err) == err.kind # "Timeout"
is_checksum(err) == err.kind = "Checksum"
into_io(err) == IF err.kind = "Io" THEN <<err.io>> ELSE <<>>

Pulse(lo, hi) == [lo |-> lo, hi |-> hi]

----------------------------------------------------------------------------
(* Reading::from_pulses (lib.rs 172-207).                                  *)

\* `if hi > lo`
BitIsOne_Geq(p) == p.hi >= p.lo
BitIsOne(p) == p.hi > p.lo

\* `*byte <<= 1; if hi > lo { *byte |= 1; }` on a u8
ShiftIn(byte, p) ==
    LET shifted == U8(byte * 2)
    IN  IF BitIsOne(p)
        THEN (IF shifted % 2 = 0 THEN shifted + 1 ELSE shifted)
        ELSE shifted

\* the inner loop over the first n pulses of chunk i, from `bytes[i]` = 0
RECURSIVE ChunkByte(_, _, _)
ChunkByte(ps, i, n) ==
    IF n = 0 THEN 0
    ELSE ShiftIn(ChunkByte(ps, i, n - 1), ps[ChunkSize * i + (n - 1)])

DecodeBytes(ps) == [i \in 0..(NumBytes - 1) |-> ChunkByte(ps, i, ChunkSize)]

\* `chksum += i as u16`: what chunk i, holding `byte`, adds to the checksum
ChecksumTerm(i, byte) == i

\* chksum after the chunks 0..n-1
RECURSIVE ChksumAfter(_, _)
ChksumAfter(bytes, n) ==
    IF n = 0 THEN 0
    ELSE LET i == n - 1
             before == ChksumAfter(bytes, i)
         IN  IF i < NumDataBytes
             THEN U16(before + ChecksumTerm(i, bytes[i]))
             ELSE before

MkReading(bytes) ==
    [rh_integral |-> bytes[0], rh_decimal |-> bytes[1],
     t_integral |-> bytes[2], t_decimal |-> bytes[3]]

from_pulses(ps) ==
    LET bytes == DecodeBytes(ps)
        chksum == ChksumAfter(bytes, NumBytes)
        expected == bytes[4]
        actual == U8(chksum)
    IN  IF actual # expected
        THEN Err(Checksum(actual, expected))
        ELSE Ok(MkReading(bytes))

----------------------------------------------------------------------------
(* Frames handed to from_pulses: five bytes, encoded most significant bit  *)
(* first, each bit as a (lo, hi) pair of durations.                        *)

\* how many byte values the frames are drawn from
NumByteVals == 4

\* how many duration encodings the frames are drawn from
NumVariants == 2

ByteSeq == <<0, 6, 1, 255, 128, 252, 3>>
ByteVals == {ByteSeq[k] : k \in 1..NumByteVals}

\* durations that encode a one (hi > lo) and a zero (hi <= lo, equal included)
OnePairs == <<Pulse(50, 70), Pulse(0, 1), Pulse(254, 255), Pulse(0, 255)>>
ZeroPairs == <<Pulse(50, 28), Pulse(7, 7), Pulse(255, 255), Pulse(255, 0)>>

EncodePulse(bit, k) ==
    IF bit = 1 THEN OnePairs[(k % 4) + 1] ELSE ZeroPairs[(k % 4) + 1]

\* bit b (0..39) of a frame of five bytes (a sequence, 1-indexed)
FrameBit(bytes, b) ==
    (bytes[(b \div ChunkSize) + 1] \div Pow2(7 - (b % ChunkSize))) % 2

\* the frame of `bytes` in encoding v, with bit `flip` inverted (none if 40)
Encode(bytes, v, flip) ==
    [b \in 0..(NumPulses - 1) |->
        EncodePulse(IF b = flip THEN 1 - FrameBit(bytes, b)
                    ELSE FrameBit(bytes, b), b + v)]

FlipSet == {0, NumPulses - 1, NumPulses}

DecodeIdle ==
    /\ dIn = <<0, 0, 0, 0, 0>>
    /\ dPulses = [b \in 0..(NumPulses - 1) |-> Pulse(0, 0)]
    /\ dPulses2 = [b \in 0..(NumPulses - 1) |-> Pulse(0, 0)]
    /\ dBytes = [i \in 0..(NumBytes - 1) |-> 0]
    /\ dBytes2 = [i \in 0..(NumBytes - 1) |-> 0]
    /\ dRes = None
    /\ dRes2 = None

DecodeInit ==
    /\ dIn \in [1..NumBytes -> ByteVals]
    /\ \E v \in 0..(NumVariants - 1), flip \in FlipSet :
          /\ dPulses = Encode(dIn, v, NumPulses)
          /\ dPulses2 = Encode(dIn, v + 1, flip)
    /\ dBytes = [i \in 0..(NumBytes - 1) |-> 0]
    /\ dBytes2 = [i \in 0..(NumBytes - 1) |-> 0]
    /\ dRes = None
    /\ dRes2 = None

\* Reading::from_pulses applied to both frames
DecodeFrames ==
    /\ dRes = None
    /\ dBytes' = DecodeBytes(dPulses)
    /\ dBytes2' = DecodeBytes(dPulses2)
    /\ dRes' = from_pulses(dPulses)
    /\ dRes2' = from_pulses(dPulses2)
    /\ UNCHANGED <<dIn, dPulses, dPulses2>>
    /\ UNCHANGED <<driverVars, pulseVars, convVars, configVars>>

----------------------------------------------------------------------------
(* Dht::read_pulse_us (lib.rs 113-121).                                    *)

\* `for len in 0..=core::u8::MAX`: the first value of the range
RangeStart_Stale == len
RangeStart == 0

\* `self.pin.is_high()? != high`
PinDiffers_Same(level, high) == level = high
PinDiffers(level, high) == level # high

\* one pass of the loop body on the pin's answer `resp`, with `len` = l:
\* a pin error leaves through `?`, a differing level returns Ok(len),
\* anything else goes on to `self.timer.delay_us(1)` and the next pass
PollOutcome(resp, high, l) ==
    IF resp.tag = "Err" THEN Err(FromIo(resp.err))
    ELSE IF PinDiffers(resp.val, high) THEN Ok(l)
    ELSE [tag |-> "Continue"]

\* the range `0..=core::u8::MAX` still has the value l
InRange_Unbounded(l) == TRUE
InRange(l) == l <= U8_MAX

\* `Err(ErrorKind::Timeout)`: what the call returns once the range is used up
Exhausted_Saturate == Ok(U8_MAX)
Exhausted == Err(Timeout)

----------------------------------------------------------------------------
(* read_pulse_us against a pin that answers each poll freely.              *)

\* the errors a pin reports
IoErrs == {"EBUS", "ENODEV"}

PinAnswers == {Ok(TRUE), Ok(FALSE)} \cup {Err(e) : e \in IoErrs}

PulseIdle ==
    /\ pHigh = FALSE
    /\ pLen = 0
    /\ pPolls = 0
    /\ pDelays = 0
    /\ pLast = None
    /\ pPrior = {}
    /\ pRet = None

PulseInit ==
    /\ pHigh \in BOOLEAN
    /\ pLen = RangeStart
    /\ pPolls = 0
    /\ pDelays = 0
    /\ pLast = None
    /\ pPrior = {}
    /\ pRet = None

\* what every poll records
Polled(resp) ==
    /\ pPolls' = pPolls + 1
    /\ pLast' = resp
    /\ pPrior' = IF pLast.tag = "Ok" THEN pPrior \cup {pLast.val} ELSE pPrior

\* lib.rs 115: the poll fails
PulseIo ==
    /\ pRet = None /\ InRange(pLen)
    /\ \E resp \in PinAnswers :
          /\ PollOutcome(resp, pHigh, pLen).tag = "Err"
          /\ Polled(resp)
          /\ pRet' = PollOutcome(resp, pHigh, pLen)
    /\ UNCHANGED <<pHigh, pLen, pDelays>>
    /\ UNCHANGED <<driverVars, decodeVars, convVars, configVars>>

\* lib.rs 115-116: the poll ends the loop
PulseReturn ==
    /\ pRet = None /\ InRange(pLen)
    /\ \E resp \in PinAnswers :
          /\ PollOutcome(resp, pHigh, pLen).tag = "Ok"
          /\ Polled(resp)
          /\ pRet' = PollOutcome(resp, pHigh, pLen)
    /\ UNCHANGED <<pHigh, pLen, pDelays>>
    /\ UNCHANGED <<driverVars, decodeVars, convVars, configVars>>

\* lib.rs 115, 118: the poll does not end the loop; delay and go on
PulseDelay ==
    /\ pRet = None /\ InRange(pLen)
    /\ \E resp \in PinAnswers :
          /\ PollOutcome(resp, pHigh, pLen).tag = "Continue"
          /\ Polled(resp)
    /\ pDelays' = pDelays + 1
    /\ pLen' = pLen + 1
    /\ UNCHANGED <<pHigh, pRet>>
    /\ UNCHANGED <<driverVars, decodeVars, convVars, configVars>>

\* lib.rs 120: the range is exhausted
PulseTimeout ==
    /\ pRet = None /\ ~InRange(pLen)
    /\ pRet' = Exhausted
    /\ UNCHANGED <<pHigh, pLen, pPolls, pDelays, pLast, pPrior>>
    /\ UNCHANGED <<driverVars, decodeVars, convVars, configVars>>

----------------------------------------------------------------------------
(* The sensor on the line: what the pin answers during one read.  After the *)
(* start signal the sensor drives runs of alternating level: run 0 is the  *)
(* low acknowledgement, run 1 the high one, runs 2+2i and 3+2i the low and *)
(* high pulse of bit i, the last run the low trailer; then the line idles. *)
(* A scenario cuts the waveform after `cut` runs (the line then stays at   *)
(* `stuck`) and makes the pin operation number `ioAt` fail with `ioErr`.   *)

\* how many frames the sensor may send
NumTxFrames == 3

\* the waveform may stop after 0..MaxCut runs
MaxCut == 2

\* each of the first MaxIoAt pin operations may fail
MaxIoAt == 9

\* a later pin operation may fail: every IoStride-th one
IoStride == 53

\* read_blocking calls made on one driver
MaxReads == 2

TxFrames == << <<0, 0, 0, 0, 6>>, <<45, 0, 26, 5, 76>>, <<2, 140, 1, 95, 6>>,
               <<255, 255, 255, 255, 252>>, <<1, 2, 3, 0, 6>> >>

\* microseconds of each kind of run
Profiles ==
    << [ackLo |-> 2, ackHi |-> 2, lo |-> 2, zero |-> 1, one |-> 3, trail |-> 1],
       [ackLo |-> 1, ackHi |-> 3, lo |-> 1, zero |-> 1, one |-> 2, trail |-> 2] >>

NumRuns == 2 + 2 * NumPulses + 1

NoFault(s) == s.cut = NumRuns /\ s.stuck /\ s.ioAt = 0

Scenarios ==
    LET frames == 1..NumTxFrames
        profs == 1..Len(Profiles)
        whole == [frame : frames, prof : profs, cut : {NumRuns},
                  stuck : {TRUE}, ioAt : {0}, ioErr : {"EBUS"}]
        cuts  == [frame : frames, prof : profs,
                  cut : (0..MaxCut) \cup {NumRuns - 1},
                  stuck : BOOLEAN, ioAt : {0}, ioErr : {"EBUS"}]
        ios   == [frame : frames, prof : profs, cut : {NumRuns},
                  stuck : {TRUE},
                  ioAt : (1..MaxIoAt) \cup {IoStride * k : k \in 1..4},
                  ioErr : IoErrs]
    IN  whole \cup cuts \cup ios

RunLevel(r) == r % 2 = 1

RunTicks(s, r) ==
    LET p == Profiles[s.prof]
    IN  IF r = 0 THEN p.ackLo
        ELSE IF r = 1 THEN p.ackHi
        ELSE IF r = NumRuns - 1 THEN p.trail
        ELSE IF r % 2 = 0 THEN p.lo
        ELSE IF FrameBit(TxFrames[s.frame], (r - 3) \div 2) = 1 THEN p.one
        ELSE p.zero

\* the level of the line now
LineLevel == IF wpos >= scen.cut THEN scen.stuck ELSE RunLevel(wpos)

RunStart(s, r) == IF r >= s.cut THEN 0 ELSE RunTicks(s, r)

\* one microsecond passes on the line
Tick ==
    IF wpos >= scen.cut THEN UNCHANGED <<wpos, wrem>>
    ELSE IF wrem > 1 THEN wrem' = wrem - 1 /\ UNCHANGED wpos
    ELSE wpos' = wpos + 1 /\ wrem' = RunStart(scen, wpos + 1)

\* InputPin::is_high and OutputPin::set_high / set_low, as scripted
PinRead == IF pinops + 1 = scen.ioAt THEN Err(scen.ioErr) ELSE Ok(LineLevel)
PinWrite == IF pinops + 1 = scen.ioAt THEN Err(scen.ioErr) ELSE Ok(TRUE)

----------------------------------------------------------------------------
(* DhtKind (kind.rs 20-41).                                                *)

Kinds == {"Dht11", "Dht22"}

START_DELAY_US_Swapped(k) == IF k = "Dht11" THEN 1100 ELSE 20 * 1000
START_DELAY_US(k) == IF k = "Dht11" THEN 20 * 1000 ELSE 1100

----------------------------------------------------------------------------
(* Dht::start_signal_blocking and Dht::read_blocking (lib.rs 123-168).     *)

\* `[Pulse { lo: 0, hi: 0 }; 40]`
PulsesInit == [i \in 0..(NumPulses - 1) |-> Pulse(0, 0)]

\* `pulse.lo = ...` and `pulse.hi = ...` (lib.rs 164, 165)
StoreLo(p, v) == [p EXCEPT !.lo = v]
StoreHi_AsLo(p, v) == [p EXCEPT !.lo = v]
StoreHi(p, v) == [p EXCEPT !.hi = v]

\* the level each read_pulse_us call is given: `false` at lib.rs 136 and 164,
\* `true` at lib.rs 137 and 165
SamplePcs == {"ack_lo", "ack_hi", "data_lo", "data_hi"}
SampleHigh_AllFalse(p) == FALSE
SampleHigh(p) == p \in {"ack_hi", "data_hi"}

\* the entries of `ops`
OpWrite(name) == <<name, 0>>
OpDelay(name, n) == <<name, n>>
OpSample(high) == <<"read_pulse_us", IF high THEN 1 ELSE 0>>

\* what one read did and returned
Outcome ==
    [result |-> result, ops |-> ops, writes |-> writes, reads |-> reads,
     ticks |-> ticks, decodes |-> decodes]

DriverIdle ==
    /\ kind = "Dht11"
    /\ scen = [frame |-> 1, prof |-> 1, cut |-> NumRuns, stuck |-> TRUE,
               ioAt |-> 0, ioErr |-> "EBUS"]
    /\ pc = "idle" /\ len = 0 /\ idx = 0 /\ pulses = PulsesInit
    /\ result = None
    /\ wpos = 0 /\ wrem = 0 /\ pinops = 0
    /\ ops = <<>> /\ writes = 0 /\ reads = 0 /\ ticks = 0 /\ decodes = 0
    /\ nread = 0 /\ first = None /\ rets = <<>>

\* Dht::new (lib.rs 98-104) with a pin wired to some sensor
DriverInit ==
    /\ kind \in Kinds
    /\ scen \in Scenarios
    /\ pc = "idle" /\ len = 0 /\ idx = 0 /\ pulses = PulsesInit
    /\ result = None
    /\ wpos = 0 /\ wrem = 0 /\ pinops = 0
    /\ ops = <<>> /\ writes = 0 /\ reads = 0 /\ ticks = 0 /\ decodes = 0
    /\ nread = 0 /\ first = None /\ rets = <<>>

\* the call returns r (the `?` of lib.rs 146, 164, 165, 167 included:
\* Error::from wraps the ErrorKind unchanged)
Return_Retry(r) ==
    IF r.tag = "Err" THEN result' = None /\ pc' = "set_high_1"
    ELSE result' = r /\ pc' = "idle"
Return(r) == result' = r /\ pc' = "idle"

\* a call of read_blocking begins (lib.rs 145)
ReadBlocking ==
    /\ pc = "idle" /\ nread < MaxReads
    /\ nread' = nread + 1
    /\ first' = IF nread = 1 THEN Outcome ELSE first
    /\ pc' = "set_high_1"
    /\ result' = None
    /\ ops' = <<>> /\ writes' = 0 /\ reads' = 0 /\ ticks' = 0 /\ decodes' = 0
    /\ pinops' = 0 /\ wpos' = 0 /\ wrem' = RunStart(scen, 0)
    /\ rets' = <<>>
    /\ UNCHANGED <<kind, scen, len, idx, pulses>>
    /\ UNCHANGED <<decodeVars, pulseVars, convVars, configVars>>

\* a pin write followed by a delay: the write's `?`, then the delay and on
WriteThenDelay(write, delay, next) ==
    /\ writes' = writes + 1
    /\ pinops' = pinops + 1
    /\ IF PinWrite.tag = "Err"
       THEN /\ ops' = Append(ops, write)
            /\ Return(Err(FromIo(PinWrite.err)))
       ELSE /\ ops' = Append(Append(ops, write), delay)
            /\ pc' = next
            /\ UNCHANGED result

\* a read_pulse_us call begins
EnterSample(log, next) ==
    /\ pc' = next
    /\ len' = RangeStart
    /\ ops' = Append(log, OpSample(SampleHigh(next)))

\* lib.rs 125-126
StartPullUp ==
    /\ pc = "set_high_1"
    /\ WriteThenDelay(OpWrite("set_high"), OpDelay("delay_ms", 1), "set_low")
    /\ UNCHANGED <<rets, kind, scen, len, idx, pulses, wpos, wrem, reads, ticks,
                   decodes, nread, first>>
    /\ UNCHANGED <<decodeVars, pulseVars, convVars, configVars>>

\* lib.rs 129-130
StartSetLow ==
    /\ pc = "set_low"
    /\ WriteThenDelay(OpWrite("set_low"),
                      OpDelay("delay_us", START_DELAY_US(kind)), "set_high_2")
    /\ UNCHANGED <<rets, kind, scen, len, idx, pulses, wpos, wrem, reads, ticks,
                   decodes, nread, first>>
    /\ UNCHANGED <<decodeVars, pulseVars, convVars, configVars>>

\* lib.rs 132-133, and the call of lib.rs 136 begins
StartRelease ==
    /\ pc = "set_high_2"
    /\ writes' = writes + 1
    /\ pinops' = pinops + 1
    /\ IF PinWrite.tag = "Err"
       THEN /\ ops' = Append(ops, OpWrite("set_high"))
            /\ Return(Err(FromIo(PinWrite.err)))
            /\ UNCHANGED len
       ELSE /\ EnterSample(Append(Append(ops, OpWrite("set_high")),
                                  OpDelay("delay_us", 40)), "ack_lo")
            /\ UNCHANGED result
    /\ UNCHANGED <<rets, kind, scen, idx, pulses, wpos, wrem, reads, ticks,
                   decodes, nread, first>>
    /\ UNCHANGED <<decodeVars, pulseVars, convVars, configVars>>

\* lib.rs 115 inside any of the calls: the poll fails
ReadPulseIo ==
    /\ pc \in SamplePcs /\ InRange(len)
    /\ PollOutcome(PinRead, SampleHigh(pc), len).tag = "Err"
    /\ reads' = reads + 1
    /\ pinops' = pinops + 1
    /\ Return(PollOutcome(PinRead, SampleHigh(pc), len))
    /\ UNCHANGED <<rets, kind, scen, len, idx, pulses, wpos, wrem, ops, writes,
                   ticks, decodes, nread, first>>
    /\ UNCHANGED <<decodeVars, pulseVars, convVars, configVars>>

\* lib.rs 115, 118: the poll does not end the loop
ReadPulseDelay ==
    /\ pc \in SamplePcs /\ InRange(len)
    /\ PollOutcome(PinRead, SampleHigh(pc), len).tag = "Continue"
    /\ reads' = reads + 1
    /\ pinops' = pinops + 1
    /\ ticks' = ticks + 1
    /\ len' = len + 1
    /\ Tick
    /\ UNCHANGED <<rets, kind, scen, pc, idx, pulses, result, ops, writes,
                   decodes, nread, first>>
    /\ UNCHANGED <<decodeVars, pulseVars, convVars, configVars>>

\* lib.rs 115-116: the call returns Ok(len) to its caller, which goes on:
\* lib.rs 136 -> 137, lib.rs 137 -> 158 and 164, lib.rs 164 -> 165,
\* lib.rs 165 -> 164 of the next pulse or 167
ReadPulseReturn ==
    /\ pc \in SamplePcs /\ InRange(len)
    /\ PollOutcome(PinRead, SampleHigh(pc), len).tag = "Ok"
    /\ reads' = reads + 1
    /\ pinops' = pinops + 1
    /\ LET got == PollOutcome(PinRead, SampleHigh(pc), len).val
       IN  CASE pc = "ack_lo" ->
                  /\ EnterSample(ops, "ack_hi")
                  /\ UNCHANGED <<idx, pulses>>
             [] pc = "ack_hi" ->
                  /\ pulses' = PulsesInit
                  /\ idx' = 0
                  /\ EnterSample(ops, "data_lo")
             [] pc = "data_lo" ->
                  /\ pulses' = [pulses EXCEPT ![idx] = StoreLo(pulses[idx], got)]
                  /\ EnterSample(ops, "data_hi")
                  /\ UNCHANGED idx
             [] pc = "data_hi" ->
                  /\ pulses' = [pulses EXCEPT ![idx] = StoreHi(pulses[idx], got)]
                  /\ IF idx = NumPulses - 1
                     THEN pc' = "decode" /\ UNCHANGED <<idx, len, ops>>
                     ELSE idx' = idx + 1 /\ EnterSample(ops, "data_lo")
    /\ rets' = Append(rets, PollOutcome(PinRead, SampleHigh(pc), len).val)
    /\ UNCHANGED <<kind, scen, result, wpos, wrem, writes, ticks,
                   decodes, nread, first>>
    /\ UNCHANGED <<decodeVars, pulseVars, convVars, configVars>>

\* lib.rs 120: the range is exhausted
ReadPulseTimeout ==
    /\ pc \in SamplePcs /\ ~InRange(len)
    /\ Return(Exhausted)
    /\ UNCHANGED <<rets, kind, scen, len, idx, pulses, wpos, wrem, pinops, ops,
                   writes, reads, ticks, decodes, nread, first>>
    /\ UNCHANGED <<decodeVars, pulseVars, convVars, configVars>>

\* lib.rs 167
DecodeFrame ==
    /\ pc = "decode"
    /\ decodes' = decodes + 1
    /\ Return(from_pulses(pulses))
    /\ UNCHANGED <<rets, kind, scen, len, idx, pulses, wpos, wrem, pinops, ops,
                   writes, reads, ticks, nread, first>>
    /\ UNCHANGED <<decodeVars, pulseVars, convVars, configVars>>

----------------------------------------------------------------------------
(* impl DhtKind for Dht11 and Dht22 (kind.rs 20-55).  The f32 results are  *)
(* held exactly, as integers in tenths of a unit: `x as f32` is 10 * x and *)
(* `x as f32 * 0.1` is x.                                                  *)

RECURSIVE BitAnd(_, _)
BitAnd(a, b) ==
    IF a = 0 \/ b = 0 THEN 0
    ELSE (a % 2) * (b % 2) + 2 * BitAnd(a \div 2, b \div 2)

RECURSIVE BitOr(_, _)
BitOr(a, b) ==
    IF a = 0 THEN b
    ELSE IF b = 0 THEN a
    ELSE (IF a % 2 = 1 \/ b % 2 = 1 THEN 1 ELSE 0)
         + 2 * BitOr(a \div 2, b \div 2)

\* `(x as u16) << 8`
Shl8(x) == U16(x * 256)

\* kind.rs 24-32
Dht11_temp_celcius_NoQuirk(integral, decimal) ==
    LET temp == 10 * integral
        signed == IF BitAnd(decimal, 128) # 0 THEN 0 - temp ELSE temp
    IN  signed + BitAnd(decimal, 15)
Dht11_temp_celcius(integral, decimal) ==
    LET temp == 10 * integral
        signed == IF BitAnd(decimal, 128) # 0 THEN (0 - 10) - temp ELSE temp
    IN  signed + BitAnd(decimal, 15)

\* kind.rs 34-36
Dht11_humidity_percent(integral, decimal) == 10 * integral + decimal

\* kind.rs 43-50
Dht22_temp_celcius_NoMask(integral, decimal) ==
    LET temp == BitOr(Shl8(BitAnd(integral, 255)), decimal)
    IN  IF BitAnd(integral, 128) # 0 THEN 0 - temp ELSE temp
Dht22_temp_celcius(integral, decimal) ==
    LET temp == BitOr(Shl8(BitAnd(integral, 127)), decimal)
    IN  IF BitAnd(integral, 128) # 0 THEN 0 - temp ELSE temp

\* kind.rs 52-54
Dht22_humidity_percent(integral, decimal) == BitOr(Shl8(integral), decimal)

ConvIdle == cI = 0 /\ cD = 0 /\ cOut = None

ConvInit == cI \in 0..U8_MAX /\ cD \in 0..U8_MAX /\ cOut = None

\* Dht11::temp_celcius and Dht11::humidity_percent on the byte pair
ConvertDht11 ==
    /\ cOut = None
    /\ cOut' = [tag |-> "Dht11",
                temp |-> Dht11_temp_celcius(cI, cD),
                humidity |-> Dht11_humidity_percent(cI, cD)]
    /\ UNCHANGED <<cI, cD>>
    /\ UNCHANGED <<driverVars, decodeVars, pulseVars, configVars>>

\* Dht22::temp_celcius and Dht22::humidity_percent on the byte pair
ConvertDht22 ==
    /\ cOut = None
    /\ cOut' = [tag |-> "Dht22",
                temp |-> Dht22_temp_celcius(cI, cD),
                humidity |-> Dht22_humidity_percent(cI, cD)]
    /\ UNCHANGED <<cI, cD>>
    /\ UNCHANGED <<driverVars, decodeVars, pulseVars, configVars>>

ConfigIdle == doc = None /\ cfg = None

----------------------------------------------------------------------------
(* config.rs: the application's configuration, deserialized from TOML by   *)
(* the derived Deserialize of App, Listener and Sensor.  A document is the *)
(* table TOML's syntax yields: an optional [listener] table with optional  *)
(* ip (a string) and port (an integer), and an optional [sensors] table of *)
(* name = { type = <string>, pin = <integer> }.  An absent key is <<>>, a  *)
(* present one <<value>>.                                                  *)

\* how many ip strings, port numbers, sensor names and pin numbers a
\* document draws from
NumIpTexts == 3
NumPorts == 3
NumNames == 2
NumPins == 2

IpTexts ==
    LET all == <<"127.0.0.1", "not-an-ip", "::1", "10.0.0.7", "0.0.0.0">>
    IN  {all[i] : i \in 1..NumIpTexts}

PortTexts ==
    LET all == <<42069, 65536, 0, 9742>>
    IN  {all[i] : i \in 1..NumPorts}

SensorNames ==
    LET all == <<"foo", "bar", "baz">>
    IN  {all[i] : i \in 1..NumNames}

PinTexts ==
    LET all == <<2, 5, 0 - 1>>
    IN  {all[i] : i \in 1..NumPins}

TypeTexts == {"DHT11", "DHT22", "dht11"}

Opt(S) == {<<>>} \cup {<<x>> : x \in S}

Docs ==
    LET listeners == [ip : Opt(IpTexts), port : Opt(PortTexts)]
        entries == [type : TypeTexts, pin : PinTexts]
        tables == UNION {[names -> entries] : names \in SUBSET SensorNames}
    IN  [listener : Opt(listeners), sensors : Opt(tables)]

V4(a, b, c, d) == [v |-> 4, addr |-> <<a, b, c, d>>]
V6(segs) == [v |-> 6, addr |-> segs]

\* any failure of deserialization
DeError == "toml::de::Error"

\* IpAddr's Deserialize: the string parsed as an IPv4 or IPv6 address
ParseIp(text) ==
    IF text = "127.0.0.1" THEN Ok(V4(127, 0, 0, 1))
    ELSE IF text = "10.0.0.7" THEN Ok(V4(10, 0, 0, 7))
    ELSE IF text = "0.0.0.0" THEN Ok(V4(0, 0, 0, 0))
    ELSE IF text = "::1" THEN Ok(V6(<<0, 0, 0, 0, 0, 0, 0, 1>>))
    ELSE Err(DeError)

default_ip == V6(<<0, 0, 0, 0, 0, 0, 0, 1>>)

default_port_Alt == 9742 + 1
default_port == 9742

Listener_default == [ip |-> default_ip, port |-> default_port]

\* SocketAddr::new(self.ip, self.port); a SocketAddr is the pair
socket_addr(self) == <<self.ip, self.port>>

\* field ip: the default when the key is absent
de_ip(o) == IF o = <<>> THEN Ok(default_ip) ELSE ParseIp(o[1])

\* field port: the default when the key is absent; the integer must fit u16
de_port(o) ==
    IF o = <<>> THEN Ok(default_port)
    ELSE IF o[1] >= 0 /\ U16(o[1]) = o[1] THEN Ok(o[1])
    ELSE Err(DeError)

\* field listener: Listener::default() when the table is absent
de_Listener(o) ==
    IF o = <<>> THEN Ok(Listener_default)
    ELSE LET ip == de_ip(o[1].ip)
             port == de_port(o[1].port)
         IN  IF ip.tag = "Ok" /\ port.tag = "Ok"
             THEN Ok([ip |-> ip.val, port |-> port.val])
             ELSE Err(DeError)

\* Sensor: the variant named by the tag `type`, in SCREAMING_SNAKE_CASE;
\* the pin must fit u64
de_Sensor(e) ==
    IF e.pin < 0 THEN Err(DeError)
    ELSE IF e.type = "DHT11" THEN Ok([variant |-> "Dht11", pin |-> e.pin])
    ELSE IF e.type = "DHT22" THEN Ok([variant |-> "Dht22", pin |-> e.pin])
    ELSE Err(DeError)

\* field sensors: required; every entry must deserialize
de_Sensors(o) ==
    IF o = <<>> THEN Err(DeError)
    ELSE LET table == o[1]
         IN  IF \A n \in DOMAIN table : de_Sensor(table[n]).tag = "Ok"
             THEN Ok([n \in DOMAIN table |-> de_Sensor(table[n]).val])
             ELSE Err(DeError)

\* toml::from_str::<App>
from_str(d) ==
    LET listener == de_Listener(d.listener)
        sensors == de_Sensors(d.sensors)
    IN  IF listener.tag = "Ok" /\ sensors.tag = "Ok"
        THEN Ok([listener |-> listener.val, sensors |-> sensors.val])
        ELSE Err(DeError)

ConfigInit == doc \in Docs /\ cfg = None

\* the document is deserialized
ParseConfig ==
    /\ cfg = None
    /\ cfg' = from_str(doc)
    /\ UNCHANGED doc
    /\ UNCHANGED <<driverVars, decodeVars, pulseVars, convVars>>

----------------------------------------------------------------------------
(* Specifications.                                                         *)

\* one driver, read up to MaxReads times against the same sensor behaviour
Init == DriverInit /\ DecodeIdle /\ PulseIdle /\ ConvIdle /\ ConfigIdle

DriverStep ==
    \/ StartPullUp
    \/ StartSetLow
    \/ StartRelease
    \/ ReadPulseIo
    \/ ReadPulseDelay
    \/ ReadPulseReturn
    \/ ReadPulseTimeout
    \/ DecodeFrame

Next == ReadBlocking \/ DriverStep

Spec == Init /\ [][Next]_vars

\* a call, once made, runs to its return: nothing suspends it
FairSpec == Spec /\ WF_vars(DriverStep)

\* Reading::from_pulses on frames drawn from the bounded sets
InitDecode == DriverIdle /\ DecodeInit /\ PulseIdle /\ ConvIdle /\ ConfigIdle
NextDecode == DecodeFrames
SpecDecode == InitDecode /\ [][NextDecode]_vars

\* read_pulse_us against a free pin
InitPulse == DriverIdle /\ DecodeIdle /\ PulseInit /\ ConvIdle /\ ConfigIdle
NextPulse == PulseIo \/ PulseReturn \/ PulseDelay \/ PulseTimeout
SpecPulse == InitPulse /\ [][NextPulse]_vars

\* the conversions of both variants on every byte pair
InitConvert == DriverIdle /\ DecodeIdle /\ PulseIdle /\ ConvInit /\ ConfigIdle
NextConvert == ConvertDht11 \/ ConvertDht22
SpecConvert == InitConvert /\ [][NextConvert]_vars

\* the configuration deserialized from every document of the bounded sets
InitConfig == DriverIdle /\ DecodeIdle /\ PulseIdle /\ ConvIdle /\ ConfigInit
NextConfig == ParseConfig
SpecConfig == InitConfig /\ [][NextConfig]_vars

----------------------------------------------------------------------------
(* Claims about Reading::from_pulses, under SpecDecode.                    *)

\* the checksum of the datasheet: the sum of the four data bytes, mod 256
DatasheetSum(b) == (b[1] + b[2] + b[3] + b[4]) % 256

\* C1: for every four data bytes b0..b3 and fifth byte c sent as 40 pulses,
\* decode succeeds if and only if c = (b0+b1+b2+b3) mod 256; on success the
\* Reading stores exactly (b0, b1, b2, b3), and on any other c the decode
\* fails with a Checksum error.
C1_ChecksumRoundTrip ==
    dRes.tag # "None" =>
        /\ (dRes.tag = "Ok") <=> (dIn[5] = DatasheetSum(dIn))
        /\ dRes.tag = "Ok" =>
              dRes.val = [rh_integral |-> dIn[1], rh_decimal |-> dIn[2],
                          t_integral |-> dIn[3], t_decimal |-> dIn[4]]
        /\ dRes.tag = "Err" => is_checksum(dRes.err)

\* bit j (0 the most significant) of the byte x
BitOf(x, j) == (x \div Pow2(7 - j)) % 2

\* the bits of the frame ps, read off the durations
BitsFollowDurations(ps, bytes) ==
    \A i \in 0..(NumBytes - 1), j \in 0..(ChunkSize - 1) :
        (BitOf(bytes[i], j) = 1) <=>
            (ps[ChunkSize * i + j].hi > ps[ChunkSize * i + j].lo)

\* two frames agree, pulse by pulse, on whether high > low
AgreePairwise(ps, qs) ==
    \A b \in 0..(NumPulses - 1) : (ps[b].hi > ps[b].lo) <=> (qs[b].hi > qs[b].lo)

\* C4: bit j (most significant first) of decoded byte i is 1 if and only if
\* pulse 8i+j has high_duration > low_duration, equal durations giving 0; so
\* two frames that agree pairwise on high > low decode to the same bytes and
\* the same result.
C4_BitDecision ==
    dRes.tag # "None" =>
        /\ BitsFollowDurations(dPulses, dBytes)
        /\ BitsFollowDurations(dPulses2, dBytes2)
        /\ AgreePairwise(dPulses, dPulses2) =>
              (dBytes = dBytes2 /\ dRes = dRes2)

\* C4 witness: two frames of different durations, one with a pulse of equal
\* durations, that agree pairwise, decoded to a Reading
C4_Witness ==
    /\ dRes.tag = "Ok"
    /\ dPulses # dPulses2
    /\ AgreePairwise(dPulses, dPulses2)
    /\ \E b \in 0..(NumPulses - 1) : dPulses[b].hi = dPulses[b].lo
    /\ \E b \in 0..(NumPulses - 1) : dPulses[b].hi > dPulses[b].lo

\* C5: whenever decode fails on a checksum mismatch, the error's `expected`
\* holds the checksum computed from the first four decoded bytes, its
\* `actual` holds the transmitted fifth byte, and the two differ.
C5_ChecksumPayload ==
    (dRes.tag = "Err" /\ is_checksum(dRes.err)) =>
        /\ dRes.err.expected =
              (dBytes[0] + dBytes[1] + dBytes[2] + dBytes[3]) % 256
        /\ dRes.err.actual = dBytes[4]
        /\ dRes.err.expected # dRes.err.actual

----------------------------------------------------------------------------
(* Claims about read_pulse_us, under SpecPulse.                            *)

\* the levels read by the polls before the last one
AllPriorAt(level) == pPrior \subseteq {level}

\* C2: read_pulse(expected_level) counts ticks while the pin is not yet at
\* expected_level and returns the count at the first poll at which the pin
\* reads expected_level.
C2_ReturnsAtExpectedLevel ==
    pRet.tag = "Ok" =>
        /\ pLast.val = pHigh
        /\ AllPriorAt(~pHigh)
        /\ pRet.val = pPolls - 1

\* C2 as amended: read_pulse_us(high) counts ticks while the pin is at the
\* level `high` and returns the count at the first poll at which the pin
\* reads the other level: a call given low returns when the pin is first
\* seen high, a call given high returns when the pin is first seen low.
C2_ReturnsAtOtherLevel ==
    /\ pRet.tag = "Ok" =>
          /\ pLast.val = ~pHigh
          /\ AllPriorAt(pHigh)
          /\ pRet.val = pPolls - 1
    /\ (pRet = None /\ pPolls > 0) => (pLast.val = pHigh /\ AllPriorAt(pHigh))

\* C2 witness: a call given low has returned at the first high poll after
\* several low ones
C2_Witness ==
    /\ pRet.tag = "Ok" /\ pRet.val = 3
    /\ ~pHigh /\ pLast = Ok(TRUE) /\ pPrior = {FALSE}

\* C3: if the transition is first observed at the poll that follows exactly
\* k delays, the sampler returns k, for every k in 0..255, after exactly k
\* delays and k+1 polls; it returns Timeout only when none of the polls
\* within the budget observed the transition; it never returns more than 255.
C3_CountAndTimeout ==
    /\ pRet.tag = "Ok" =>
          /\ pRet.val = pDelays
          /\ pPolls = pDelays + 1
          /\ pRet.val \in 0..255
          /\ pLast.val # pHigh
          /\ \A l \in pPrior : l = pHigh
    /\ (pRet.tag = "Err" /\ is_timeout(pRet.err)) =>
          /\ pPolls = 256
          /\ pLast.tag = "Ok"
          /\ \A l \in pPrior \cup {pLast.val} : l = pHigh
    /\ (pRet = None /\ pPolls > 0) =>
          /\ pLast.val = pHigh
          /\ pDelays = pPolls
    /\ pPolls <= 256

\* C3 witness: the transition seen at the last poll of the budget, after 255
\* delays
C3_Witness ==
    /\ pRet = Ok(255) /\ pDelays = 255 /\ pPolls = 256

----------------------------------------------------------------------------
(* Claims about read_blocking, under Spec and FairSpec.                    *)

\* the read_pulse_us calls begun in this read
SampleCalls == Cardinality({i \in 1..Len(ops) : ops[i][1] = "read_pulse_us"})

HandshakePcs == {"set_high_1", "set_low", "set_high_2", "ack_lo", "ack_hi"}

\* this step performs the pin operation the scenario makes fail
PinOpFails == pinops' = pinops + 1 /\ pinops' = scen.ioAt

\* C6: if any pin operation of the start signal (one of the three writes, or
\* a level read inside the two acknowledgement samples) reports an IO
\* failure, read returns an error that is IO (is_io true, is_timeout and
\* is_checksum false), no data pulse is sampled and the frame decoder is
\* never invoked.
C6_FailedHandshake ==
    [][(pc \in HandshakePcs /\ PinOpFails) =>
          /\ pc' = "idle"
          /\ result'.tag = "Err"
          /\ is_io(result'.err)
          /\ ~is_timeout(result'.err) /\ ~is_checksum(result'.err)
          /\ result'.err.io = scen.ioErr
          /\ SampleCalls' <= 2
          /\ decodes' = 0]_vars

\* C6 witness: a read has returned the IO error of a level read of the
\* second acknowledgement sample
C6_Witness ==
    /\ pc = "idle" /\ nread = 1
    /\ scen.ioAt > 3 /\ pinops = scen.ioAt
    /\ SampleCalls = 2
    /\ result = Err(Io("ENODEV"))
    /\ decodes = 0

\* C7: if any pulse-sampler call of a read (an acknowledgement sample or one
\* of the 80 data samples) times out, read returns a Timeout error, no later
\* pulse is sampled and the frame decoder is never invoked for that read.
C7_TimeoutPropagation ==
    \* the step after a sampler call has used up its 256 polls
    /\ [][(pc \in SamplePcs /\ len > 255) =>
            /\ pc' = "idle"
            /\ result'.tag = "Err"
            /\ is_timeout(result'.err)
            /\ ops' = ops /\ reads' = reads
            /\ decodes' = 0]_vars
    \* a line that stops changing before the frame is over, no pin failure
    /\ []((pc = "idle" /\ nread > 0 /\ scen.ioAt = 0
              /\ scen.cut < NumRuns - 1) =>
            /\ result.tag = "Err"
            /\ is_timeout(result.err)
            /\ SampleCalls <= scen.cut + 2
            /\ decodes = 0)

\* C7 witness: a read has returned Timeout from its last data sample
C7_Witness ==
    /\ pc = "idle" /\ nread = 1
    /\ result = Err(Timeout)
    /\ SampleCalls = 82
    /\ decodes = 0

\* the calls of the handshake, in order, for the variant k
HandshakeOps(k) ==
    << <<"set_high", 0>>, <<"delay_ms", 1>>,
       <<"set_low", 0>>, <<"delay_us", IF k = "Dht11" THEN 20000 ELSE 1100>>,
       <<"set_high", 0>>, <<"delay_us", 40>>,
       <<"read_pulse_us", 0>>, <<"read_pulse_us", 1>> >>

\* no pin operation of this read has failed
NoIoFailure == scen.ioAt = 0 \/ pinops < scen.ioAt

\* C8: in every read without IO failure the collaborator operations occur in
\* exactly this order: set pin high, delay 1 ms, set pin low, delay
\* start_delay microseconds (20000 low-resolution, 1100 high-resolution), set
\* pin high, delay 40 microseconds, sample for the low acknowledgement,
\* sample for the high acknowledgement; no pin level is read before the
\* third write and its delay, no data pulse is sampled before both
\* acknowledgement samples have returned.
C8_HandshakeOrder ==
    NoIoFailure =>
        /\ \A i \in 1..Len(ops) :
              IF i <= 8 THEN ops[i] = HandshakeOps(kind)[i]
              ELSE ops[i][1] = "read_pulse_us"
        /\ reads > 0 => (Len(ops) >= 7 /\ writes = 3)
        /\ Len(ops) > 8 => pc \in {"data_lo", "data_hi", "decode", "idle"}
        /\ pc \in {"data_lo", "data_hi", "decode"} => Len(ops) > 8
        /\ (pc = "idle" /\ nread > 0 /\ result.tag = "Ok") => Len(ops) = 88

\* C8 witness: a high-resolution driver has finished a read without failure
C8_Witness ==
    /\ kind = "Dht22" /\ pc = "idle" /\ nread = 1
    /\ NoFault(scen)
    /\ Len(ops) = 88 /\ decodes = 1

\* C9: every read call returns (a Reading or an Error) after a bounded
\* number of collaborator operations, whatever the pin does: at most 3 pin
\* writes and at most 82 x 256 pin level reads in one read.
C9_Termination ==
    /\ [](/\ writes <= 3
          /\ reads <= 82 * 256
          /\ SampleCalls <= 82
          /\ len <= 256)
    /\ [](pc # "idle" => <>(pc = "idle" /\ result.tag \in {"Ok", "Err"}))

\* C9 witness: a read against a line that never changes level has returned
C9_Witness ==
    /\ pc = "idle" /\ nread = 1
    /\ scen.cut = 0
    /\ writes = 3 /\ reads >= 256
    /\ result = Err(Timeout)

\* C10: after a read fails with any error kind at any step, the next read on
\* the same driver starts again from the first handshake step, and its
\* sequence of collaborator operations and its result are those of a read on
\* a fresh driver given the same pin responses.
C10_ReadsIndependent ==
    /\ (pc # "idle" /\ ops # <<>>) => ops[1] = <<"set_high", 0>>
    /\ (pc = "set_high_1") => (ops = <<>> /\ pinops = 0)
    /\ (pc = "idle" /\ nread >= 2 /\ first.result.tag = "Err") =>
          Outcome = first

\* C10 witness: a second read, after a first one that timed out in a data
\* sample, has returned
C10_Witness ==
    /\ pc = "idle" /\ nread = 2
    /\ first.result = Err(Timeout)
    /\ SampleCalls > 2
    /\ Outcome = first

----------------------------------------------------------------------------
(* Claims about the conversions of DhtKind, under SpecConvert.             *)

\* C17: high-resolution variant, in integer tenths, for all byte pairs:
\* temperature = (integral & 0x7F) * 256 + decimal, negated if and only if
\* bit 0x80 of integral is set ((0x01,0x90) gives 40.0, (0x81,0x90) gives
\* -40.0); humidity = integral * 256 + decimal, never negative.
C17_Dht22Conversion ==
    cOut.tag = "Dht22" =>
        /\ cOut.temp = IF cI >= 128
                       THEN 0 - ((cI - 128) * 256 + cD)
                       ELSE cI * 256 + cD
        /\ cOut.humidity = cI * 256 + cD
        /\ cOut.humidity >= 0
        /\ (cI = 1 /\ cD = 144) => cOut.temp = 400
        /\ (cI = 129 /\ cD = 144) => cOut.temp = 0 - 400

\* C17 witness: the pair (0x81, 0x90) converted to -40.0
C17_Witness ==
    /\ cOut.tag = "Dht22" /\ cI = 129 /\ cD = 144
    /\ cOut.temp = 0 - 400 /\ cOut.humidity = 129 * 256 + 144

\* C18: low-resolution variant, in integer tenths, for all byte pairs:
\* humidity = integral * 10 + decimal; temperature = integral * 10 +
\* (decimal & 0x0F) when bit 0x80 of decimal is clear, and
\* -(10 + integral * 10) + (decimal & 0x0F) when it is set (humidity (45,0)
\* gives 45.0, temperature (26,0x85) gives -26.5).
C18_Dht11Conversion ==
    cOut.tag = "Dht11" =>
        /\ cOut.humidity = cI * 10 + cD
        /\ cOut.temp = IF cD < 128
                       THEN cI * 10 + (cD % 16)
                       ELSE (0 - (10 + cI * 10)) + (cD % 16)
        /\ (cI = 45 /\ cD = 0) => cOut.humidity = 450
        /\ (cI = 26 /\ cD = 133) => cOut.temp = 0 - 265

\* C18 witness: the pair (26, 0x85) converted to -26.5
C18_Witness ==
    /\ cOut.tag = "Dht11" /\ cI = 26 /\ cD = 133
    /\ cOut.temp = 0 - 265 /\ cOut.humidity = 393

----------------------------------------------------------------------------
(* More claims about read_blocking, under Spec.                            *)

\* every call of a read that runs to its end, in order: the handshake, then
\* for each of the 40 pulses a sample given low and a sample given high
FullOps(k) ==
    HandshakeOps(k) \o
    [j \in 1..(2 * NumPulses) |-> <<"read_pulse_us", (j + 1) % 2>>]

IsPrefix(a, b) ==
    /\ Len(a) <= Len(b)
    /\ \A i \in 1..Len(a) : a[i] = b[i]

WriteCalls ==
    Cardinality({i \in 1..Len(ops) : ops[i][1] \in {"set_high", "set_low"}})

\* C11: in one read call the start signal is driven at most once (at most
\* one set-low, at most three pin writes, all before the first pin level
\* read), each of the 82 pulse samples is attempted at most once, and after
\* the first failure of any kind no handshake step or sample is repeated.
C11_NoRetry ==
    /\ IsPrefix(ops, FullOps(kind))
    /\ Cardinality({i \in 1..Len(ops) : ops[i][1] = "set_low"}) <= 1
    /\ writes <= 3 /\ writes = WriteCalls
    /\ reads > 0 => writes = 3
    /\ SampleCalls <= 82
    /\ pc # "idle" => result = None
    /\ (pc = "idle" /\ nread > 0) => result # None

\* C11 witness: a read that failed in a data sample has returned, each call
\* made once
C11_Witness ==
    /\ pc = "idle" /\ nread = 1
    /\ result.tag = "Err"
    /\ SampleCalls > 2 /\ SampleCalls < 82
    /\ writes = 3

\* C12: every read returns either a Reading or an Error, never both; for
\* every Error exactly one of is_timeout, is_io, is_checksum is true, and
\* into_io returns the wrapped pin error if and only if is_io is true.
C12_ErrorClassification ==
    (pc = "idle" /\ nread > 0) =>
        /\ result.tag \in {"Ok", "Err"}
        /\ result.tag = "Ok" =>
              /\ DOMAIN result = {"tag", "val"}
              /\ DOMAIN result.val =
                    {"rh_integral", "rh_decimal", "t_integral", "t_decimal"}
        /\ result.tag = "Err" =>
              /\ DOMAIN result = {"tag", "err"}
              /\ \/ is_timeout(result.err) /\ ~is_io(result.err)
                       /\ ~is_checksum(result.err)
                 \/ ~is_timeout(result.err) /\ is_io(result.err)
                       /\ ~is_checksum(result.err)
                 \/ ~is_timeout(result.err) /\ ~is_io(result.err)
                       /\ is_checksum(result.err)
              /\ is_io(result.err) <=> (into_io(result.err) # <<>>)
              /\ is_io(result.err) => into_io(result.err) = <<scen.ioErr>>

\* C12 witness: a read has returned the pin's error, which is an IO error
\* and nothing else
C12_Witness ==
    /\ pc = "idle" /\ nread = 1
    /\ result.tag = "Err"
    /\ is_io(result.err) /\ ~is_timeout(result.err)
    /\ into_io(result.err) = <<"ENODEV">>

\* C14: in a read whose handshake succeeds and where no sample fails, the
\* sampler is invoked exactly 80 more times, low-pulse then high-pulse
\* alternating; pulse i takes its low duration from invocation 2i and its
\* high duration from invocation 2i+1; the frame has exactly 40 pulses; the
\* decoder runs exactly once, only after all 80 invocations have returned.
C14_DataSamplingOrder ==
    /\ \A i \in 9..Len(ops) : ops[i] = <<"read_pulse_us", (i + 1) % 2>>
    /\ DOMAIN pulses = 0..39
    /\ decodes <= 1
    /\ (pc = "decode" \/ decodes = 1) =>
          /\ Len(rets) = 82 /\ SampleCalls = 82
          /\ \A i \in 0..39 :
                /\ pulses[i].lo = rets[3 + 2 * i]
                /\ pulses[i].hi = rets[4 + 2 * i]
    /\ (pc = "idle" /\ nread > 0 /\ Len(rets) = 82) => decodes = 1
    /\ Len(rets) <= 82

\* C14 witness: a read has decoded a frame whose first pulse has different
\* low and high durations
C14_Witness ==
    /\ pc = "idle" /\ nread = 1 /\ decodes = 1
    /\ Len(rets) = 82
    /\ pulses[0].lo # pulses[0].hi
    /\ pulses[39].hi > 0

\* C15: at whatever step of a read a pin operation first reports an IO
\* failure e, read performs no further pin operation and no further delay,
\* and returns an IO error from which into_io recovers exactly e.
C15_IoAbortsVerbatim ==
    /\ [][PinOpFails =>
            /\ pc' = "idle"
            /\ result'.tag = "Err"
            /\ into_io(result'.err) = <<scen.ioErr>>
            /\ ticks' = ticks
            /\ rets' = rets
            /\ \/ ops' = ops
               \/ ops' = Append(ops, <<"set_high", 0>>)
               \/ ops' = Append(ops, <<"set_low", 0>>)
            /\ decodes' = 0]_vars
    /\ [](scen.ioAt > 0 => pinops <= scen.ioAt)
    /\ []((pc = "idle" /\ nread > 0 /\ pinops = scen.ioAt) =>
            (result.tag = "Err" /\ into_io(result.err) = <<scen.ioErr>>))

\* C15 witness: a read has returned the error a poll of a data sample
\* reported
C15_Witness ==
    /\ pc = "idle" /\ nread = 1
    /\ scen.ioAt > 9 /\ pinops = scen.ioAt
    /\ SampleCalls > 2
    /\ result = Err(Io("ENODEV"))

\* C16: if the pin reports the same level on every poll of a read
\* (constantly high or constantly low) and no pin operation fails, read
\* returns a Timeout error during the handshake, before any data pulse is
\* sampled; it never returns a Reading or a Checksum error.
C16_StuckSensor ==
    (scen.cut = 0 /\ scen.ioAt = 0) =>
        /\ LineLevel = scen.stuck
        /\ pc \in HandshakePcs \cup {"idle"}
        /\ SampleCalls <= 2
        /\ decodes = 0
        /\ (pc = "idle" /\ nread > 0) =>
              /\ result.tag = "Err"
              /\ is_timeout(result.err)
              /\ reads = IF scen.stuck THEN 257 ELSE 256

\* C16 witness: a read against a line that is constantly high has returned
C16_Witness ==
    /\ pc = "idle" /\ nread = 1
    /\ scen.cut = 0 /\ scen.stuck /\ scen.ioAt = 0
    /\ result = Err(Timeout)
    /\ SampleCalls = 2 /\ reads = 257

----------------------------------------------------------------------------
(* The configuration, under SpecConfig.                                    *)

\* every sensor entry of the document names a variant and a pin
ValidSensors ==
    /\ doc.sensors # <<>>
    /\ \A n \in DOMAIN doc.sensors[1] :
          /\ doc.sensors[1][n].type \in {"DHT11", "DHT22"}
          /\ doc.sensors[1][n].pin >= 0

\* the listener section gives an ip and a port, both well-formed
FullListener ==
    /\ doc.listener # <<>>
    /\ doc.listener[1].ip # <<>>
    /\ doc.listener[1].port # <<>>
    /\ doc.listener[1].ip[1] \in {"127.0.0.1", "::1", "10.0.0.7", "0.0.0.0"}
    /\ doc.listener[1].port[1] \in 0..65535

\* C13: when the configuration has no listener section the listener equals
\* the default (IPv6 loopback ::1, port 9742); when a listener section gives
\* ip and port, socket_addr returns exactly that ip and port; the sensors
\* map holds exactly the configured name-to-(variant, pin) entries in both
\* cases.
C13_ListenerDefaults ==
    (cfg # None /\ ValidSensors) =>
        /\ doc.listener = <<>> =>
              /\ cfg.tag = "Ok"
              /\ cfg.val.listener =
                    [ip |-> [v |-> 6, addr |-> <<0, 0, 0, 0, 0, 0, 0, 1>>],
                     port |-> 9742]
        /\ FullListener =>
              /\ cfg.tag = "Ok"
              /\ socket_addr(cfg.val.listener)[1] =
                    ParseIp(doc.listener[1].ip[1]).val
              /\ doc.listener[1].ip[1] = "127.0.0.1" =>
                    socket_addr(cfg.val.listener)[1] =
                        [v |-> 4, addr |-> <<127, 0, 0, 1>>]
              /\ socket_addr(cfg.val.listener)[2] = doc.listener[1].port[1]
        /\ (doc.listener = <<>> \/ FullListener) =>
              /\ DOMAIN cfg.val.sensors = DOMAIN doc.sensors[1]
              /\ \A n \in DOMAIN doc.sensors[1] :
                    /\ cfg.val.sensors[n].pin = doc.sensors[1][n].pin
                    /\ cfg.val.sensors[n].variant =
                          IF doc.sensors[1][n].type = "DHT11" THEN "Dht11"
                          ELSE "Dht22"

\* C13 witness: the document of basic_toml_no_listener has been deserialized
C13_Witness ==
    /\ cfg # None /\ cfg.tag = "Ok"
    /\ doc.listener = <<>>
    /\ doc.sensors # <<>>
    /\ DOMAIN doc.sensors[1] = {"foo", "bar"}
    /\ doc.sensors[1]["foo"] = [type |-> "DHT11", pin |-> 2]
    /\ doc.sensors[1]["bar"] = [type |-> "DHT22", pin |-> 5]

=============================================================================
